---- MODULE Spec2Model ----
(***************************************************************************)
(* The Zookeeper consumer module of Burrow (KafkaZkClient): a four-level   *)
(* tree of one-shot watches (group list, topic payload of a group,         *)
(* partition list of a group, offset node of a partition), the session     *)
(* monitor that rebuilds the tree after an expiry, and Start / Stop.       *)
(*                                                                         *)
(* Every goroutine is a stack of frames; one action is one statement (or a *)
(* run of statements that touch no shared state) of one frame.  The        *)
(* Zookeeper ensemble is the environment: its tree, its session and the    *)
(* watch channels it fires.  What the ensemble does in a run is one of a   *)
(* few scripts (changes of the tree, session losses, or both).             *)
(***************************************************************************)
EXTENDS Integers, Sequences, FiniteSets, Bags, TLC

\* ---------------------------------------------------------------- bounds
\* Changes of the Zookeeper tree the environment may make.
MaxChanges == 2
\* Session losses (expiries and disconnects) the environment may cause.
MaxSessionLoss == 2

\* ------------------------------------------------------------- universes
\* Group names are strings, modelled as tuples of characters.
G1 == <<"a">>
G2 == <<"a", "b">>
NoGroup == <<>>
Groups == {G1, G2}
\* Children of a group node are named by their index "0", "1".
Parts == {0, 1}
Topics == {"t1", "t2"}

\* A node payload: JSON text, either malformed or an object whose fields are
\* the ones given (a missing field is the empty string / zero).
Raw(valid, topic, offset) == [valid |-> valid, topic |-> topic, offset |-> offset]
BadJson == Raw(FALSE, "", 0)
RawPayloads == {BadJson, Raw(TRUE, "t1", 1), Raw(TRUE, "t2", 2)}
FirstPayload == Raw(TRUE, "t1", 1)

\* A node of the tree: whether it exists, its data and its Mtime.
Node(exists, raw, mtime) == [exists |-> exists, raw |-> raw, mtime |-> mtime]
NoNode == Node(FALSE, BadJson, 0)

\* A compiled regular expression: lit, ^lit, lit$ or ^lit$.
Pattern(kind, lit) == [kind |-> kind, lit |-> lit]
NilPattern == Pattern("nil", <<>>)
PatternKinds == {"contains", "prefix", "suffix", "exact"}
Chars == {"a", "b"}
Names == {<<>>} \cup {<<c>> : c \in Chars} \cup {<<c, d>> : c \in Chars, d \in Chars}
Patterns == {NilPattern} \cup {Pattern(k, <<c>>) : k \in PatternKinds, c \in Chars}
\* The filter of the watch tree: no whitelist, and the blacklist b$.
TreeWhitelist == NilPattern
TreeBlacklist == Pattern("suffix", <<"b">>)

\* What the environment does in one run: the trees it may start with (the
\* groups, and how many children the changed group has), the kinds of events
\* it causes, and how many tree changes and session losses.
Tree(groups, k) == [groups |-> groups, k |-> k]
Trees == {Tree({G2}, 0), Tree({G1}, 1), Tree({G1, G2}, 1), Tree({G1, G2}, 2)}
Script(trees, kinds, maxChanges, maxLosses) ==
  [trees |-> trees, kinds |-> kinds, maxChanges |-> maxChanges, maxLosses |-> maxLosses]
\* Changes of the tree only.
TreeScript == Script(Trees, {"group", "child", "data"}, MaxChanges, 0)
\* Session losses only.
SessionScript == Script(Trees, {"expire", "disconnect"}, 0, MaxSessionLoss)
\* Changes and losses of every kind, one fewer of each.
MixedScript ==
  Script(Trees, {"group", "child", "data", "expire", "disconnect"},
         MaxChanges - 1, MaxSessionLoss - 1)
\* Children that come and go around an expiry.
ChurnScript ==
  Script({Tree({G1, G2}, 1)}, {"child", "expire"}, MaxChanges, MaxSessionLoss - 1)
\* A child that is deleted, created again and written.
RewriteScript == Script({Tree({G1}, 1)}, {"child", "data"}, MaxChanges + 1, 0)
Scripts == {TreeScript, SessionScript, MixedScript, ChurnScript, RewriteScript}

VARIABLES
  zkGroups,       \* the children of the consumers path
  zkData,         \* zkData[g][i]: the node <consumers>/g/i
  conn,           \* "none", "connected", "disconnected", "expired" or "closed"
  eventChan,      \* session events not yet received by the session monitor
  changes,        \* tree changes made so far
  losses,         \* session losses so far
  expiries,       \* expiries of the session so far
  script,         \* the script of the environment
  groupWhitelist, \* module.groupWhitelist
  groupBlacklist, \* module.groupBlacklist
  areWatchesSet,  \* module.areWatchesSet
  running,        \* the counter of module.running (sync.WaitGroup)
  groupList,      \* module.groupList: group -> (topic -> count)
  gen,            \* how many maps module.groupList has been replaced by
  inserts,        \* the insertions into the map and its topic maps: a bag
  held,           \* the mutexes that are locked
  tasks,          \* the goroutines: a bag of stacks of frames
  sent,           \* the requests handed to TimeoutSendStorageRequest: a bag
  crashed,        \* the process died of a panic
  filterArg,      \* the argument of a lone call of acceptConsumerGroup
  filterRes       \* its result: "none", "true" or "false"

envVars == <<zkGroups, zkData, conn, eventChan, changes, losses, expiries, script>>
cfgVars == <<groupWhitelist, groupBlacklist>>
modVars == <<areWatchesSet, running, groupList, gen, inserts, held, tasks, sent, crashed>>
filterVars == <<filterArg, filterRes>>
vars == <<envVars, cfgVars, modVars, filterVars>>

\* ------------------------------------------------------------ the filter
IsPrefix(lit, s) == Len(lit) <= Len(s) /\ SubSeq(s, 1, Len(lit)) = lit
IsSuffix(lit, s) == Len(lit) <= Len(s) /\ SubSeq(s, Len(s) - Len(lit) + 1, Len(s)) = lit
IsInfix(lit, s) == \E k \in 1..(Len(s) + 1) :
                      k + Len(lit) - 1 <= Len(s) /\ SubSeq(s, k, k + Len(lit) - 1) = lit

\* regexp.MatchString: an unanchored search unless the pattern anchors it.
MatchString(re, s) ==
  CASE re.kind = "contains" -> IsInfix(re.lit, s)
    [] re.kind = "prefix"   -> IsPrefix(re.lit, s)
    [] re.kind = "suffix"   -> IsSuffix(re.lit, s)
    [] re.kind = "exact"    -> re.lit = s
    [] OTHER                -> FALSE

\* acceptConsumerGroup without the blacklist test of lines 186-188.
acceptConsumerGroupNoDeny(wl, bl, group) ==
  IF wl /= NilPattern /\ ~MatchString(wl, group) THEN FALSE ELSE TRUE

acceptConsumerGroup(wl, bl, group) ==
  IF wl /= NilPattern /\ ~MatchString(wl, group) THEN FALSE
  ELSE IF bl /= NilPattern /\ MatchString(bl, group) THEN FALSE
  ELSE TRUE

\* ------------------------------------------------------------ the payload
\* json.Unmarshal into a Transform: an error on malformed text, else the
\* fields of the object.
Unmarshal(raw) ==
  IF raw.valid THEN [err |-> FALSE, Topic |-> raw.topic, Offset |-> raw.offset]
  ELSE [err |-> TRUE, Topic |-> "", Offset |-> 0]

\* -------------------------------------------------------------- the locks
NoLock == <<"none", 0, NoGroup, "">>
GroupLock == <<"groupLock", 0, NoGroup, "">>
TopicsLock(k, g) == <<"topics", k, g, "">>
CountLock(k, g, t) == <<"count", k, g, t>>

\* ------------------------------------------------------------- the frames
NoPath == <<"none", NoGroup, 0>>

\* One call of a function of the module: its parameters (g, t, p, ro), its
\* locals (todo: consumerGroups still to visit; n: len(topicPartitions); d,
\* mtime: the payload and Stat read; i: the loop index; lk: the mutex its
\* deferred Unlock releases), the path wp its read registered a watch on, the
\* path src whose watch fired to start it, and whether it has started the
\* goroutine that waits on its new watch (re).
Frame(fn, pc, g, t, p, ro) ==
  [fn |-> fn, pc |-> pc, g |-> g, t |-> t, p |-> p, ro |-> ro,
   wp |-> NoPath, src |-> NoPath, re |-> FALSE,
   todo |-> {}, n |-> 0, d |-> BadJson, mtime |-> 0, i |-> 0, lk |-> NoLock]

Top(s) == s[Len(s)]
Below(s) == SubSeq(s, 1, Len(s) - 1)
SetTop(s, f) == [s EXCEPT ![Len(s)] = f]

Stacks == BagToSet(tasks)
One(s) == IF s = <<>> THEN EmptyBag ELSE SetToBag({s})
\* The goroutines after goroutine s became s2 (the empty stack: it ended).
Swap(s, s2) == (tasks (-) SetToBag({s})) (+) One(s2)

RECURSIVE Copies(_)
Copies(S) ==
  IF S = {} THEN 0
  ELSE LET x == CHOOSE y \in S : TRUE IN tasks[x] + Copies(S \ {x})

\* ------------------------------------------------------------ the watches
WatchFn(fn) ==
  CASE fn = "resetGroupListWatchAndAdd" -> "watchGroupList"
    [] fn = "resetTopicListWatchAndAdd" -> "watchTopicList"
    [] fn = "resetPartitionListWatchAndAdd" -> "watchPartitionList"
    [] fn = "resetOffsetWatchAndSend" -> "watchOffset"
    [] OTHER -> "none"
ResetFn(fn) ==
  CASE fn = "watchGroupList" -> "resetGroupListWatchAndAdd"
    [] fn = "watchTopicList" -> "resetTopicListWatchAndAdd"
    [] fn = "watchPartitionList" -> "resetPartitionListWatchAndAdd"
    [] fn = "watchOffset" -> "resetOffsetWatchAndSend"
    [] OTHER -> "none"
IsWatcher(f) == f.pc = "wait"

\* watchGroupList, watchTopicList, watchPartitionList, watchOffset: a closed
\* channel or EventNotWatching ends the chain; any other event starts the
\* handler of the level in a new goroutine, reset-only unless the event is
\* the one the level scans on.
WatchEnds(ev) == ev \in {"closed", "notwatching"}
ScanEvent(fn) == IF fn = "watchOffset" THEN "data" ELSE "children"
ResetOnly(fn, ev) == ev /= ScanEvent(fn)

Received(f, ev) ==
  IF WatchEnds(ev) THEN <<>>
  ELSE <<[Frame(ResetFn(f.fn), "read", f.g, f.t, f.p, ResetOnly(f.fn, ev))
            EXCEPT !.src = f.wp]>>

\* A change of the children of a path is EventNodeChildrenChanged on its
\* child watches; a change of the data of a node is EventNodeDataChanged on
\* its data watches; a deletion of a node is EventNodeDeleted on its data
\* watches and EventNodeChildrenChanged on the child watches of its parent.
ChildrenChanged(g, f) == IF f.wp = <<"children", g, 0>> THEN "children" ELSE "none"
DataChanged(g, i, f) == IF f.wp = <<"data", g, i>> THEN "data" ELSE "none"
NodeDeleted(g, i, f) ==
  IF f.wp = <<"data", g, i>> THEN "deleted"
  ELSE IF f.wp = <<"children", g, 0>> THEN "children" ELSE "none"

\* What happened to the ensemble: a change of the tree at group g, child i,
\* or the end of every watch (the session expired, the connection closed).
Happened(kind, g, i) == [kind |-> kind, g |-> g, i |-> i]
\* The event it puts on the channel the goroutine f waits on ("none": none).
EventOn(f, h) ==
  CASE h.kind = "children" -> ChildrenChanged(h.g, f)
    [] h.kind = "data" -> DataChanged(h.g, h.i, f)
    [] h.kind = "deleted" -> NodeDeleted(h.g, h.i, f)
    [] OTHER -> h.kind

\* A watch channel is a rendezvous: the ensemble's event and its receipt by
\* the goroutine that waits on the channel are one step.  The goroutines
\* after every waiting goroutine received its event of h, and how many of
\* them ended.
After(s, h) ==
  IF IsWatcher(Top(s)) /\ EventOn(Top(s), h) /= "none"
  THEN Received(Top(s), EventOn(Top(s), h)) ELSE s
Fired(h) ==
  LET img == {After(s, h) : s \in Stacks} \ {<<>>}
  IN [s2 \in img |-> Copies({s \in Stacks : After(s, h) = s2})]
Ended(h) == Copies({s \in Stacks : After(s, h) = <<>>})

\* ------------------------------------------------------- the environment
\* The groups whose subtree the environment changes.
ChangedGroups == {G1}

MayChange(kind) ==
  /\ ~crashed /\ conn = "connected"
  /\ kind \in script.kinds /\ changes < script.maxChanges
MayLose(kind) ==
  /\ ~crashed
  /\ kind \in script.kinds /\ losses < script.maxLosses

EnvCreateGroup(g) ==
  /\ MayChange("group")
  /\ g \notin zkGroups
  /\ zkGroups' = zkGroups \cup {g}
  /\ changes' = changes + 1
  /\ tasks' = Fired(Happened("children", NoGroup, 0))
  /\ UNCHANGED <<zkData, conn, eventChan, losses, expiries, script, cfgVars, filterVars,
                 areWatchesSet, running, groupList, inserts, gen, held, sent, crashed>>

EnvCreateChild(g, i) ==
  /\ MayChange("child")
  /\ g \in zkGroups /\ ~zkData[g][i].exists
  /\ zkData' = [zkData EXCEPT ![g][i] = Node(TRUE, FirstPayload, 0)]
  /\ changes' = changes + 1
  /\ tasks' = Fired(Happened("children", g, 0))
  /\ UNCHANGED <<zkGroups, conn, eventChan, losses, expiries, script, cfgVars, filterVars,
                 areWatchesSet, running, groupList, inserts, gen, held, sent, crashed>>

EnvDeleteChild(g, i) ==
  /\ MayChange("child")
  /\ g \in zkGroups /\ zkData[g][i].exists
  /\ zkData' = [zkData EXCEPT ![g][i] = NoNode]
  /\ changes' = changes + 1
  /\ tasks' = Fired(Happened("deleted", g, i))
  /\ UNCHANGED <<zkGroups, conn, eventChan, losses, expiries, script, cfgVars, filterVars,
                 areWatchesSet, running, groupList, inserts, gen, held, sent, crashed>>

\* A write: new data, and a later Mtime.
EnvSetData(g, i, raw) ==
  /\ MayChange("data")
  /\ g \in zkGroups /\ zkData[g][i].exists /\ zkData[g][i].raw /= raw
  /\ zkData' = [zkData EXCEPT ![g][i] = Node(TRUE, raw, zkData[g][i].mtime + 1)]
  /\ changes' = changes + 1
  /\ tasks' = Fired(Happened("data", g, i))
  /\ UNCHANGED <<zkGroups, conn, eventChan, losses, expiries, script, cfgVars, filterVars,
                 areWatchesSet, running, groupList, inserts, gen, held, sent, crashed>>

\* The session expires: every watch is invalidated.
EnvExpire ==
  /\ MayLose("expire") /\ conn \in {"connected", "disconnected"}
  /\ conn' = "expired"
  /\ losses' = losses + 1
  /\ expiries' = expiries + 1
  /\ eventChan' = Append(eventChan, "expired")
  /\ tasks' = Fired(Happened("notwatching", NoGroup, 0))
  /\ running' = running - Ended(Happened("notwatching", NoGroup, 0))
  /\ UNCHANGED <<zkGroups, zkData, changes, script, cfgVars, filterVars,
                 areWatchesSet, groupList, inserts, gen, held, sent, crashed>>

\* The connection drops; the session and its watches stay.
EnvDisconnect ==
  /\ MayLose("disconnect") /\ conn = "connected"
  /\ conn' = "disconnected"
  /\ losses' = losses + 1
  /\ eventChan' = Append(eventChan, "disconnected")
  /\ UNCHANGED <<zkGroups, zkData, changes, expiries, script, cfgVars, filterVars, modVars>>

EnvConnect ==
  /\ ~crashed /\ conn \in {"expired", "disconnected"}
  /\ conn' = "connected"
  /\ eventChan' = Append(eventChan, "connected")
  /\ UNCHANGED <<zkGroups, zkData, changes, losses, expiries, script, cfgVars, filterVars, modVars>>

\* ------------------------------------------------------------ the module
\* The arguments of the calls of zk.ChildrenW and zk.GetW.
GroupListPath == <<"children", NoGroup, 0>>
TopicListPath(g) == <<"data", g, 0>>
PartitionListPath(g) == <<"children", g, 0>>
OffsetPath(g, p) == <<"data", g, p>>
ReadPath(f) ==
  CASE f.fn = "resetGroupListWatchAndAdd" -> GroupListPath
    [] f.fn = "resetTopicListWatchAndAdd" -> TopicListPath(f.g)
    [] f.fn = "resetPartitionListWatchAndAdd" -> PartitionListPath(f.g)
    [] f.fn = "resetOffsetWatchAndSend" -> OffsetPath(f.g, f.p)
    [] OTHER -> NoPath

\* Whether the call succeeds: the connection is up and the node exists.
ReadOk(path) ==
  /\ conn = "connected"
  /\ path[2] = NoGroup \/ path[2] \in zkGroups
  /\ path[1] = "data" => zkData[path[2]][path[3]].exists
Children(g) == {i \in Parts : zkData[g][i].exists}

\* The frame after its read of path succeeded.
HasRead(f, path) ==
  [f EXCEPT !.wp = path,
            !.todo = IF path = GroupListPath THEN zkGroups ELSE {},
            !.n = IF path[1] = "children" /\ path[2] /= NoGroup
                  THEN Cardinality(Children(path[2])) ELSE 0,
            !.d = IF path[1] = "data" THEN zkData[path[2]][path[3]].raw ELSE BadJson,
            !.mtime = IF path[1] = "data" THEN zkData[path[2]][path[3]].mtime ELSE 0,
            !.t = IF f.fn = "resetTopicListWatchAndAdd"
                  THEN Unmarshal(zkData[path[2]][path[3]].raw).Topic ELSE f.t]

\* The goroutine that waits on the channel of the watch frame f registered.
Watcher(f) ==
  <<[Frame(WatchFn(f.fn), "wait", f.g,
           IF f.fn = "resetTopicListWatchAndAdd" THEN "" ELSE f.t, f.p, FALSE)
       EXCEPT !.wp = f.wp]>>

\* The goroutine started after the scan instead of before it.
ContinuationAfterScan(f) == IF f.ro THEN {Watcher(f)} ELSE {}

\* Lines 214-215, 281-282, 331-332, 399-400: the goroutines a handler starts
\* once its read has succeeded.
Continuation(f) == {Watcher(f)}

\* What a handler does after the goroutine is started: the scan.
AfterSpawn(fn) ==
  CASE fn = "resetGroupListWatchAndAdd" -> "lock"
    [] fn = "resetTopicListWatchAndAdd" -> "scan"
    [] fn = "resetPartitionListWatchAndAdd" -> "lock"
    [] OTHER -> "send"

DecodeFails(f) ==
  /\ f.fn \in {"resetTopicListWatchAndAdd", "resetOffsetWatchAndSend"}
  /\ Unmarshal(f.d).err

\* The handler without the tests of resetOnly (lines 217, 284, 334, 402).
EnteredScans(f) ==
  LET f2 == HasRead(f, ReadPath(f)) IN
  IF ~ReadOk(ReadPath(f)) THEN [stack |-> <<>>, go |-> {}]
  ELSE IF DecodeFails(f2)
  THEN IF f.fn = "resetTopicListWatchAndAdd"
       THEN [stack |-> <<>>, go |-> {}]
       ELSE [stack |-> <<[f2 EXCEPT !.pc = "badOffset"]>>, go |-> {}]
  ELSE [stack |-> <<[f2 EXCEPT !.pc = AfterSpawn(f.fn), !.re = Continuation(f2) /= {}]>>,
        go |-> Continuation(f2)]

\* Lines 208-217, 260-284, 321-334, 369-402: a handler from its entry to its
\* first statement after the read that registers the watch.  On an error the
\* handler returns; so does resetTopicListWatchAndAdd on a malformed payload;
\* resetOffsetWatchAndSend goes to its log call.  Otherwise the handler
\* starts the goroutine that waits on the new channel, and returns if it is
\* reset-only.  stack: the frame if the handler has not returned; go: the
\* goroutines it started.
Entered(f) ==
  LET f2 == HasRead(f, ReadPath(f)) IN
  IF ~ReadOk(ReadPath(f)) THEN [stack |-> <<>>, go |-> {}]
  ELSE IF DecodeFails(f2)
  THEN IF f.fn = "resetTopicListWatchAndAdd"
       THEN [stack |-> <<>>, go |-> {}]
       ELSE [stack |-> <<[f2 EXCEPT !.pc = "badOffset"]>>, go |-> {}]
  ELSE IF f.ro THEN [stack |-> <<>>, go |-> Continuation(f2)]
  ELSE [stack |-> <<[f2 EXCEPT !.pc = AfterSpawn(f.fn), !.re = Continuation(f2) /= {}]>>,
        go |-> Continuation(f2)]

\* running.Add(1) and the call of handler f by the goroutine s, whose stack
\* is caller at the call.
Call(s, caller, f) ==
  /\ tasks' = Swap(s, caller \o Entered(f).stack) (+) SetToBag(Entered(f).go)
  /\ running' = running + Len(Entered(f).stack) + Cardinality(Entered(f).go)

\* A frame returns: its deferred Done, and its deferred Unlock if it has one.
Return(s) ==
  /\ tasks' = Swap(s, Below(s))
  /\ running' = running - 1
  /\ held' = held \ {Top(s).lk}

\* A nil map entry is dereferenced, or err.Error() is called on a nil error:
\* the goroutine panics and the process dies.
Panic ==
  /\ crashed' = TRUE
  /\ UNCHANGED <<envVars, cfgVars, filterVars, areWatchesSet, running, groupList, inserts,
                 gen, held, tasks, sent>>

\* Start, lines 129-132: the connection fails.
StartFails(s) ==
  /\ ~crashed /\ Top(s).fn = "main" /\ Top(s).pc = "start"
  /\ tasks' = Swap(s, SetTop(s, [Top(s) EXCEPT !.pc = "failed"]))
  /\ UNCHANGED <<envVars, cfgVars, filterVars, areWatchesSet, running, groupList, inserts, gen,
                 held, sent, crashed>>

\* Start, lines 129-130 and 133: the session is there, and its first event is
\* on the event channel.
Start(s) ==
  /\ ~crashed /\ Top(s).fn = "main" /\ Top(s).pc = "start"
  /\ conn' = "connected"
  /\ eventChan' = <<"connected">>
  /\ tasks' = Swap(s, SetTop(s, [Top(s) EXCEPT !.pc = "connected"]))
  /\ UNCHANGED <<zkGroups, zkData, changes, losses, expiries, script, cfgVars,
                 filterVars, areWatchesSet, running, groupList, inserts, gen, held, sent, crashed>>

\* Start, lines 136-137: the scan of the group list.
StartScan(s) ==
  /\ ~crashed /\ Top(s).fn = "main" /\ Top(s).pc = "connected"
  /\ Call(s, SetTop(s, [Top(s) EXCEPT !.pc = "scanned"]),
          Frame("resetGroupListWatchAndAdd", "read", NoGroup, "", 0, FALSE))
  /\ UNCHANGED <<envVars, cfgVars, filterVars, areWatchesSet, groupList, inserts, gen, held,
                 sent, crashed>>

\* Start, lines 138-144: the flag, and the session monitor.
StartMonitor(s) ==
  /\ ~crashed /\ Top(s).fn = "main" /\ Top(s).pc = "scanned"
  /\ areWatchesSet' = TRUE
  /\ running' = running + 1
  /\ tasks' = Swap(s, SetTop(s, [Top(s) EXCEPT !.pc = "started"]))
                (+) One(<<Frame("connectionStateWatcher", "recv", NoGroup, "", 0, FALSE)>>)
  /\ UNCHANGED <<envVars, cfgVars, filterVars, groupList, inserts, gen, held, sent, crashed>>

\* Stop, line 152: zk.Close() closes every watch channel and the event channel.
Stop(s) ==
  /\ ~crashed /\ Top(s).fn = "main" /\ Top(s).pc = "started"
  /\ conn' = "closed"
  /\ tasks' = (Fired(Happened("closed", NoGroup, 0)) (-) SetToBag({s}))
                (+) One(SetTop(s, [Top(s) EXCEPT !.pc = "waiting"]))
  /\ running' = running - Ended(Happened("closed", NoGroup, 0))
  /\ UNCHANGED <<zkGroups, zkData, eventChan, changes, losses, expiries, script, cfgVars,
                 filterVars, areWatchesSet, groupList, inserts, gen, held, sent, crashed>>

\* Stop without running.Wait().
StopNoWait(s) ==
  /\ ~crashed /\ Top(s).fn = "main" /\ Top(s).pc = "waiting"
  /\ tasks' = Swap(s, SetTop(s, [Top(s) EXCEPT !.pc = "stopped"]))
  /\ UNCHANGED <<envVars, cfgVars, filterVars, areWatchesSet, running, groupList, inserts, gen,
                 held, sent, crashed>>

\* Stop, lines 153-155: running.Wait() returns when the counter is zero.
StopWait(s) ==
  /\ ~crashed /\ Top(s).fn = "main" /\ Top(s).pc = "waiting"
  /\ running = 0
  /\ tasks' = Swap(s, SetTop(s, [Top(s) EXCEPT !.pc = "stopped"]))
  /\ UNCHANGED <<envVars, cfgVars, filterVars, areWatchesSet, running, groupList, inserts, gen,
                 held, sent, crashed>>

\* connectionStateWatcher, lines 160-167: the next session event.
NeedsRebuild(event, flag) == event = "connected" /\ ~flag

SessionEvent(s) ==
  /\ ~crashed /\ Top(s).fn = "connectionStateWatcher" /\ Top(s).pc = "recv"
  /\ eventChan /= <<>>
  /\ eventChan' = Tail(eventChan)
  /\ areWatchesSet' = IF Head(eventChan) = "expired" THEN FALSE ELSE areWatchesSet
  /\ tasks' = IF NeedsRebuild(Head(eventChan), areWatchesSet)
              THEN Swap(s, SetTop(s, [Top(s) EXCEPT !.pc = "rebuild"]))
              ELSE tasks
  /\ UNCHANGED <<zkGroups, zkData, conn, changes, losses, expiries, script, cfgVars,
                 filterVars, running, groupList, inserts, gen, held, sent, crashed>>

\* connectionStateWatcher, lines 168-174: a new map under the group lock,
\* and a goroutine that scans the group list.  The flag is left as it is.
FlagAfterRebuild(flag) == flag

SessionRebuild(s) ==
  /\ ~crashed /\ Top(s).fn = "connectionStateWatcher" /\ Top(s).pc = "rebuild"
  /\ GroupLock \notin held
  /\ groupList' = <<>>
  /\ gen' = gen + 1
  /\ inserts' = EmptyBag
  /\ areWatchesSet' = FlagAfterRebuild(areWatchesSet)
  /\ running' = running + 1
  /\ tasks' = Swap(s, SetTop(s, [Top(s) EXCEPT !.pc = "recv"]))
                (+) One(<<Frame("resetGroupListWatchAndAdd", "read", NoGroup, "", 0, FALSE)>>)
  /\ UNCHANGED <<envVars, cfgVars, filterVars, held, sent, crashed>>

\* connectionStateWatcher, lines 159-160 and 178-179: the event channel is
\* closed and drained.
SessionEnd(s) ==
  /\ ~crashed /\ Top(s).fn = "connectionStateWatcher" /\ Top(s).pc = "recv"
  /\ eventChan = <<>> /\ conn = "closed"
  /\ Return(s)
  /\ UNCHANGED <<envVars, cfgVars, filterVars, areWatchesSet, groupList, inserts, gen, sent, crashed>>

\* A handler that a watch goroutine or the session monitor started in a
\* goroutine of its own (lines 173, 200, 253, 313, 361): its entry.
Read(s) ==
  LET f == Top(s) IN
  /\ ~crashed /\ f.pc = "read"
  /\ tasks' = Swap(s, Below(s) \o Entered(f).stack) (+) SetToBag(Entered(f).go)
  /\ running' = running - 1 + Len(Entered(f).stack) + Cardinality(Entered(f).go)
  /\ UNCHANGED <<envVars, cfgVars, filterVars, areWatchesSet, groupList, inserts, gen, held, sent,
                 crashed>>

\* Lines 382-395: the log call for a malformed payload evaluates err.Error()
\* with err = nil.
OffsetBadJson(s) ==
  /\ Top(s).fn = "resetOffsetWatchAndSend" /\ Top(s).pc = "badOffset"
  /\ ~crashed
  /\ Panic

\* Lines 219-220: the group lock.
GroupListLock(s) ==
  LET f == Top(s) IN
  /\ ~crashed /\ f.fn = "resetGroupListWatchAndAdd" /\ f.pc = "lock"
  /\ GroupLock \notin held
  /\ held' = held \cup {GroupLock}
  /\ tasks' = Swap(s, SetTop(s, [f EXCEPT !.pc = "loop", !.lk = GroupLock]))
  /\ UNCHANGED <<envVars, cfgVars, filterVars, areWatchesSet, running, groupList, inserts, gen,
                 sent, crashed>>

\* Lines 221-241: one group of the list; an accepted group that is not in
\* the map is inserted and its topic handler called.
\* The insertion without the nil test of line 230.
InsertGroupAgain(g) == acceptConsumerGroup(groupWhitelist, groupBlacklist, g)

\* The insertion without the filter of line 222.
InsertGroupUnfiltered(g) == g \notin DOMAIN groupList

InsertGroup(g) ==
  acceptConsumerGroup(groupWhitelist, groupBlacklist, g) /\ g \notin DOMAIN groupList

GroupListLoop(s) ==
  LET f == Top(s) IN
  /\ ~crashed /\ f.fn = "resetGroupListWatchAndAdd" /\ f.pc = "loop"
  /\ \E g \in f.todo :
       IF InsertGroup(g)
       THEN /\ groupList' = [x \in DOMAIN groupList \cup {g} |->
                               IF x = g THEN [t \in {} |-> 0] ELSE groupList[x]]
            /\ inserts' = inserts (+) SetToBag({<<g>>})
            /\ Call(s, SetTop(s, [f EXCEPT !.todo = f.todo \ {g}]),
                    Frame("resetTopicListWatchAndAdd", "read", g, "", 0, FALSE))
       ELSE /\ tasks' = Swap(s, SetTop(s, [f EXCEPT !.todo = f.todo \ {g}]))
            /\ UNCHANGED <<groupList, inserts, running>>
  /\ UNCHANGED <<envVars, cfgVars, filterVars, areWatchesSet, gen, held, sent, crashed>>

\* Lines 242-243: the list is done; the deferred Unlock and Done.
GroupListDone(s) ==
  LET f == Top(s) IN
  /\ ~crashed /\ f.fn = "resetGroupListWatchAndAdd" /\ f.pc = "loop"
  /\ f.todo = {}
  /\ Return(s)
  /\ UNCHANGED <<envVars, cfgVars, filterVars, areWatchesSet, groupList, inserts, gen, sent, crashed>>

\* Lines 286-300: under the lock of the group's topic map, the topic of the
\* payload is inserted if it is not in the map and its partition handler
\* called.  module.groupList[group] is dereferenced: a missing group panics.
InsertTopic(g, t) == t \notin DOMAIN groupList[g]

TopicListScan(s) ==
  LET f == Top(s) IN
  /\ ~crashed /\ f.fn = "resetTopicListWatchAndAdd" /\ f.pc = "scan"
  /\ IF f.g \notin DOMAIN groupList
     THEN Panic
     ELSE /\ TopicsLock(gen, f.g) \notin held
          /\ IF InsertTopic(f.g, f.t)
             THEN /\ groupList' = [groupList EXCEPT ![f.g] =
                                     [t \in DOMAIN groupList[f.g] \cup {f.t} |->
                                        IF t = f.t THEN 0 ELSE groupList[f.g][t]]]
                  /\ inserts' = inserts (+) SetToBag({<<f.g, f.t>>})
                  /\ held' = held \cup {TopicsLock(gen, f.g)}
                  /\ Call(s, SetTop(s, [f EXCEPT !.pc = "ret", !.lk = TopicsLock(gen, f.g)]),
                          Frame("resetPartitionListWatchAndAdd", "read", f.g, f.t, 0, FALSE))
             ELSE /\ Return(s)
                  /\ UNCHANGED <<groupList, inserts>>
          /\ UNCHANGED <<envVars, cfgVars, filterVars, areWatchesSet, gen, sent, crashed>>

\* Lines 302-303: the deferred Unlock and Done.
Ret(s) ==
  /\ ~crashed /\ Top(s).pc = "ret"
  /\ Return(s)
  /\ UNCHANGED <<envVars, cfgVars, filterVars, areWatchesSet, groupList, inserts, gen, sent, crashed>>

\* Whether module.groupList[g].topics[t] is there.
HasEntry(g, t) == g \in DOMAIN groupList /\ t \in DOMAIN groupList[g]

\* Lines 336-339: the lock of the topic's partition count, and the live
\* count against the stored count.  module.groupList[group].topics[topic] is
\* dereferenced: a missing group or topic panics.
Grows(n, count) == n >= count

PartitionListLock(s) ==
  LET f == Top(s) IN
  /\ ~crashed /\ f.fn = "resetPartitionListWatchAndAdd" /\ f.pc = "lock"
  /\ IF ~HasEntry(f.g, f.t)
     THEN Panic
     ELSE /\ CountLock(gen, f.g, f.t) \notin held
          /\ held' = held \cup {CountLock(gen, f.g, f.t)}
          /\ tasks' = Swap(s, SetTop(s,
               [f EXCEPT !.pc = IF Grows(f.n, groupList[f.g][f.t]) THEN "loop" ELSE "ret",
                         !.i = groupList[f.g][f.t],
                         !.lk = CountLock(gen, f.g, f.t)]))
          /\ UNCHANGED <<envVars, cfgVars, filterVars, areWatchesSet, running, groupList, inserts,
                         gen, sent, crashed>>

\* Lines 339-347: the offset handler of one new partition index is called.
PartitionListLoop(s) ==
  LET f == Top(s) IN
  /\ ~crashed /\ f.fn = "resetPartitionListWatchAndAdd" /\ f.pc = "loop"
  /\ f.i < f.n
  /\ Call(s, SetTop(s, [f EXCEPT !.i = f.i + 1]),
          Frame("resetOffsetWatchAndSend", "read", f.g, f.t, f.i, FALSE))
  /\ UNCHANGED <<envVars, cfgVars, filterVars, areWatchesSet, groupList, inserts, gen, held, sent,
                 crashed>>

\* The stored count left as it is.
NewCountKept(n, count) == count

\* Lines 348-351: the stored count, then the deferred Unlock and Done.
NewCount(n, count) == n

PartitionListAssign(s) ==
  LET f == Top(s) IN
  /\ ~crashed /\ f.fn = "resetPartitionListWatchAndAdd" /\ f.pc = "loop"
  /\ ~(f.i < f.n)
  /\ IF ~HasEntry(f.g, f.t)
     THEN Panic
     ELSE /\ groupList' = [groupList EXCEPT ![f.g][f.t] = NewCount(f.n, groupList[f.g][f.t])]
          /\ Return(s)
          /\ UNCHANGED <<envVars, cfgVars, filterVars, areWatchesSet, gen, inserts, sent,
                         crashed>>

\* The request with the partition left at its zero value.
RequestNoPartition(g, t, p, offset, mtime) ==
  [Cluster |-> "cluster", Group |-> g, Topic |-> t, Partition |-> 0,
   Offset |-> offset, Timestamp |-> mtime]

\* Lines 402-424: the request handed to the storage channel.
Request(g, t, p, offset, mtime) ==
  [Cluster |-> "cluster", Group |-> g, Topic |-> t, Partition |-> p,
   Offset |-> offset, Timestamp |-> mtime]

OffsetSend(s) ==
  LET f == Top(s) IN
  /\ ~crashed /\ f.fn = "resetOffsetWatchAndSend" /\ f.pc = "send"
  /\ sent' = sent (+) SetToBag({Request(f.g, f.t, f.p, Unmarshal(f.d).Offset, f.mtime)})
  /\ Return(s)
  /\ UNCHANGED <<envVars, cfgVars, filterVars, areWatchesSet, groupList, inserts, gen, crashed>>

\* ------------------------------------------------------ the specification
\* The tree when the module starts: one of the trees of the script.
InitTree ==
  \E tree \in script.trees :
    /\ zkGroups = tree.groups
    /\ zkData = [g \in Groups |-> [i \in Parts |->
                   IF g \in zkGroups /\ i < (IF g \in ChangedGroups THEN tree.k ELSE 1)
                   THEN Node(TRUE, FirstPayload, 0) ELSE NoNode]]

InitWith(scripts) ==
  /\ script \in scripts
  /\ InitTree
  /\ conn = "none"
  /\ eventChan = <<>>
  /\ changes = 0
  /\ losses = 0
  /\ expiries = 0
  /\ groupWhitelist = TreeWhitelist
  /\ groupBlacklist = TreeBlacklist
  /\ areWatchesSet = FALSE
  /\ running = 0
  /\ groupList = <<>>
  /\ gen = 0
  /\ inserts = EmptyBag
  /\ held = {}
  /\ tasks = SetToBag({<<Frame("main", "start", NoGroup, "", 0, FALSE)>>})
  /\ sent = EmptyBag
  /\ crashed = FALSE
  /\ filterArg = <<>>
  /\ filterRes = "none"

Init == InitWith(Scripts)

Next ==
  \/ \E g \in Groups : EnvCreateGroup(g)
  \/ \E g \in ChangedGroups, i \in Parts : EnvCreateChild(g, i)
  \/ \E g \in ChangedGroups, i \in Parts : EnvDeleteChild(g, i)
  \/ \E g \in ChangedGroups, i \in Parts, raw \in RawPayloads : EnvSetData(g, i, raw)
  \/ EnvExpire
  \/ EnvDisconnect
  \/ EnvConnect
  \/ \E s \in Stacks : StartFails(s)
  \/ \E s \in Stacks : Start(s)
  \/ \E s \in Stacks : StartScan(s)
  \/ \E s \in Stacks : StartMonitor(s)
  \/ \E s \in Stacks : Stop(s)
  \/ \E s \in Stacks : StopWait(s)
  \/ \E s \in Stacks : SessionEvent(s)
  \/ \E s \in Stacks : SessionRebuild(s)
  \/ \E s \in Stacks : SessionEnd(s)
  \/ \E s \in Stacks : Read(s)
  \/ \E s \in Stacks : OffsetBadJson(s)
  \/ \E s \in Stacks : GroupListLock(s)
  \/ \E s \in Stacks : GroupListLoop(s)
  \/ \E s \in Stacks : GroupListDone(s)
  \/ \E s \in Stacks : TopicListScan(s)
  \/ \E s \in Stacks : Ret(s)
  \/ \E s \in Stacks : PartitionListLock(s)
  \/ \E s \in Stacks : PartitionListLoop(s)
  \/ \E s \in Stacks : PartitionListAssign(s)
  \/ \E s \in Stacks : OffsetSend(s)

Spec == Init /\ [][Next]_vars

\* acceptConsumerGroup alone: one call, for every pair of patterns and every
\* name.
FilterInit ==
  /\ groupWhitelist \in Patterns
  /\ groupBlacklist \in Patterns
  /\ filterArg \in Names
  /\ filterRes = "none"
  /\ zkGroups = {}
  /\ zkData = [g \in Groups |-> [i \in Parts |-> NoNode]]
  /\ conn = "none"
  /\ eventChan = <<>>
  /\ changes = 0
  /\ losses = 0
  /\ expiries = 0
  /\ script = Script({}, {}, 0, 0)
  /\ areWatchesSet = FALSE
  /\ running = 0
  /\ groupList = <<>>
  /\ gen = 0
  /\ inserts = EmptyBag
  /\ held = {}
  /\ tasks = EmptyBag
  /\ sent = EmptyBag
  /\ crashed = FALSE

FilterCall ==
  /\ filterRes = "none"
  /\ filterRes' = IF acceptConsumerGroup(groupWhitelist, groupBlacklist, filterArg)
                  THEN "true" ELSE "false"
  /\ UNCHANGED <<envVars, cfgVars, modVars, filterArg>>

FilterSpec == FilterInit /\ [][FilterCall]_vars

\* A step of a goroutine of the module other than the calls of Start and
\* Stop, which are the caller's to make.
TaskStep ==
  \E s \in Stacks :
    \/ StartScan(s)
    \/ StartMonitor(s)
    \/ StopWait(s)
    \/ SessionEvent(s)
    \/ SessionRebuild(s)
    \/ SessionEnd(s)
    \/ Read(s)
    \/ OffsetBadJson(s)
    \/ GroupListLock(s)
    \/ GroupListLoop(s)
    \/ GroupListDone(s)
    \/ TopicListScan(s)
    \/ Ret(s)
    \/ PartitionListLock(s)
    \/ PartitionListLoop(s)
    \/ PartitionListAssign(s)
    \/ OffsetSend(s)

\* The scheduler runs every goroutine that can take a step; the environment
\* follows the mixed script.
FairInit == InitWith({MixedScript})
FairSpec == FairInit /\ [][Next]_vars /\ WF_vars(TaskStep)

\* ------------------------------------------------------------ the claims
\* The tasks started and not finished: the calls of the handlers, the watch
\* goroutines and the session monitor, over the goroutines of S.
RECURSIVE TaskCount(_)
TaskCount(S) ==
  IF S = {} THEN 0
  ELSE LET x == CHOOSE y \in S : TRUE
       IN tasks[x] * Len(SelectSeq(x, LAMBDA f : f.fn /= "main")) + TaskCount(S \ {x})
StopReturned == \E s \in Stacks : Top(s).fn = "main" /\ Top(s).pc = "stopped"

\* C1: in every reachable state the completion counter equals the number of
\* tasks started and not yet finished, and once Stop has returned no handler,
\* no watch goroutine and no session monitor is left.
C1_StopLeavesNoTask ==
  /\ running = TaskCount(Stacks)
  /\ StopReturned => TaskCount(Stacks) = 0
\* Stop has returned after a scan had populated the tree and sent requests.
C1_Witness == StopReturned /\ groupList /= <<>> /\ sent /= EmptyBag

\* C2: once the connection is closed, the counter eventually reaches zero
\* and Stop eventually returns.
C2_ShutdownCompletes == (conn = "closed") ~> (StopReturned /\ running = 0)

\* The goroutines that wait on a watch of path.
WatchersOn(path) == Copies({s \in Stacks : IsWatcher(Top(s)) /\ Top(s).wp = path})

\* C3: at most one outstanding watch of the module per node path, over the
\* four levels together.
C3_OneWatchPerPath ==
  \A s \in Stacks : IsWatcher(Top(s)) => WatchersOn(Top(s).wp) <= 1

\* The frames of handlers that are at a step of their scan.
ScanPcs == {"lock", "loop", "scan", "ret", "send"}
Scanning ==
  {f \in UNION {{s[k] : k \in 1..Len(s)} : s \in Stacks} : f.pc \in ScanPcs}

\* C4: a handler that is at a step of its scan has registered its watch, on
\* the path whose watch fired if a fire started it, and has started the
\* goroutine that waits on that watch.
C4_RearmBeforeScan ==
  \A f \in Scanning :
    /\ f.re
    /\ f.wp = ReadPath(f)
    /\ f.src /= NoPath => f.src = f.wp
\* A fire of an offset watch started a handler that is about to send, and a
\* fire of a partition-list watch one that is about to take the count lock.
C4_Witness ==
  /\ \E f \in Scanning : f.src /= NoPath /\ f.fn = "resetOffsetWatchAndSend"
  /\ \E f \in Scanning : f.src /= NoPath /\ f.fn = "resetPartitionListWatchAndAdd"

\* The node of partition p of group g was written, and v is its data.
Written(g, p, v) ==
  zkData[g][p].exists /\ zkData[g][p].raw = v /\ zkData[g][p].mtime > 0
\* The offset watch chain of the node is live: a goroutine waits on its
\* watch, or the handler a fire started is about to read it.
OffsetChain(g, p) ==
  \E s \in Stacks :
    /\ Top(s).g = g /\ Top(s).p = p
    /\ \/ Top(s).fn = "watchOffset"
       \/ Top(s).fn = "resetOffsetWatchAndSend" /\ Top(s).pc = "read"
\* A request with the offset and the Mtime of the node's data was sent.
Forwarded(g, p, v) ==
  \E r \in BagToSet(sent) :
    /\ r.Group = g /\ r.Partition = p
    /\ r.Offset = v.offset /\ r.Timestamp = zkData[g][p].mtime

\* Every handler has finished: the goroutines that are left wait on a watch,
\* on the session events, or are the caller after Start.
Quiet ==
  /\ ~crashed /\ conn = "connected" /\ eventChan = <<>>
  /\ \A s \in Stacks :
       \/ IsWatcher(Top(s))
       \/ Top(s).fn = "connectionStateWatcher" /\ Top(s).pc = "recv"
       \/ Top(s).fn = "main" /\ Top(s).pc = "started"

\* C5: no update is missed.  Once every handler has finished, with the
\* session up and the module not stopped, the value last written to an offset
\* node that has a live watch chain has been sent (nothing is left that would
\* send it later).
C5_NoMissedUpdate ==
  Quiet =>
    \A g \in ChangedGroups, p \in Parts, v \in {r \in RawPayloads : r.valid} :
      (Written(g, p, v) /\ OffsetChain(g, p)) => Forwarded(g, p, v)

\* C7: the count of a TopicEntry never decreases (an entry is the same entry
\* as long as the map it is in is not replaced).
C7_CountNeverDecreases ==
  [][\A g \in Groups, t \in Topics :
       (gen' = gen /\ HasEntry(g, t) /\ HasEntry(g, t)')
         => groupList'[g][t] >= groupList[g][t]]_vars

\* C6: the tree is replaced, and the root scan started, at most once for
\* each expiry of the session.
C6_OneRebuildPerExpiry == gen <= expiries

\* C8: within one generation of the tree no group and no topic is inserted
\* twice, so no second topic-list or partition-list watch is started for it
\* (the insertion and the call that starts the watch are one branch).
C8_InsertIfAbsent == \A k \in BagToSet(inserts) : inserts[k] <= 1
\* G2 was created after the start, so G1 was there from the start: the scan
\* of Start and a scan that a fire of the group-list watch started have both
\* been through G1, and it was inserted once.
C8_Witness ==
  /\ zkGroups = {G1, G2} /\ ~zkData[G2][0].exists
  /\ G1 \in DOMAIN groupList /\ inserts[<<G1>>] = 1 /\ gen = 0
  /\ \E s \in Stacks :
       /\ Top(s).fn = "resetGroupListWatchAndAdd" /\ Top(s).pc = "loop"
       /\ Top(s).src = GroupListPath /\ Top(s).todo = {}
  /\ \E s \in Stacks : Top(s).fn = "main" /\ Top(s).pc = "started"

\* C9: acceptConsumerGroup returns false exactly when the whitelist is set and
\* does not match the name, or the blacklist is set and matches it; with
\* neither set it returns true.
C9_FilterResult ==
  filterRes /= "none" =>
    /\ filterRes = "false" <=>
         \/ groupWhitelist /= NilPattern /\ ~MatchString(groupWhitelist, filterArg)
         \/ groupBlacklist /= NilPattern /\ MatchString(groupBlacklist, filterArg)
    /\ (groupWhitelist = NilPattern /\ groupBlacklist = NilPattern) => filterRes = "true"
\* A name that the whitelist matches is refused because the blacklist matches
\* it too.
C9_Witness ==
  /\ filterRes = "false"
  /\ groupWhitelist /= NilPattern /\ MatchString(groupWhitelist, filterArg)
  /\ groupBlacklist /= NilPattern /\ MatchString(groupBlacklist, filterArg)

\* The frames of the goroutines.
Frames == UNION {{s[k] : k \in 1..Len(s)} : s \in Stacks}
Accepted(g) == acceptConsumerGroup(groupWhitelist, groupBlacklist, g)

\* C10: every key of the group map is accepted by the filter, no handler or
\* watch goroutine is at a path under a refused group, and no request names a
\* refused group.
C10_OnlyAcceptedGroups ==
  /\ \A g \in DOMAIN groupList : Accepted(g)
  /\ \A f \in Frames : f.g /= NoGroup => Accepted(f.g)
  /\ \A f \in Frames : f.wp[2] /= NoGroup => Accepted(f.wp[2])
  /\ \A r \in BagToSet(sent) : Accepted(r.Group)
\* After a rebuild, with a refused group in the tree, the scan of the group
\* list is done and the accepted group is tracked again.
C10_Witness ==
  /\ gen > 0 /\ zkGroups = {G1, G2} /\ zkData[G2][0].exists
  /\ HasEntry(G1, "t1") /\ groupList[G1]["t1"] > 0
  /\ \A f \in Frames : f.fn /= "resetGroupListWatchAndAdd"
  /\ sent /= EmptyBag

\* The requests of the first scan of group g: one for each of the n children
\* of its node, with the topic of the payload of child 0, and the offset and
\* the Mtime of the child.
FirstFacts(g) ==
  {Request(g, Unmarshal(zkData[g][0].raw).Topic, i,
           Unmarshal(zkData[g][i].raw).Offset, zkData[g][i].mtime) :
     i \in 0..(Cardinality(Children(g)) - 1)}
\* Nothing has changed since the start: no change of the tree, no loss of
\* the session or the connection.
NoChange == changes = 0 /\ losses = 0

\* C11: with no change since the start, every request sent for a group is
\* one of the requests of its first scan and is sent once; and once every
\* handler has finished, each of them has been sent for a tracked group.
C11_FactsOfFirstScan ==
  NoChange =>
    \A g \in Groups :
      /\ \A r \in BagToSet(sent) : r.Group = g => (r \in FirstFacts(g) /\ sent[r] = 1)
      /\ (Quiet /\ g \in DOMAIN groupList) => FirstFacts(g) \subseteq BagToSet(sent)
\* The first scan of a group with two children is over: two requests.
C11_Witness ==
  /\ NoChange /\ Quiet /\ HasEntry(G1, "t1")
  /\ Cardinality(Children(G1)) = 2
  /\ Cardinality(BagToSet(sent)) = 2

\* The topic-list watch chain of group g is live: a goroutine waits on its
\* watch, or the handler a fire started is about to read the node.
TopicChain(g) ==
  \E s \in Stacks :
    /\ Top(s).g = g
    /\ \/ Top(s).fn = "watchTopicList"
       \/ Top(s).fn = "resetTopicListWatchAndAdd" /\ Top(s).pc = "read" /\ Top(s).src /= NoPath

\* C12: a payload that does not decode does not end a watch chain.  The
\* topic-list chain of a group and the offset chain of a node end only when
\* the read that re-registers the watch fails or the session ends; after a
\* read that succeeded the chain is still there, whatever the payload.
C12_DecodeFailureKeepsChain ==
  [][\A g \in ChangedGroups :
       /\ (TopicChain(g) /\ ~TopicChain(g)')
            => (~ReadOk(TopicListPath(g)) \/ conn' /= "connected")
       /\ \A p \in Parts :
            (OffsetChain(g, p) /\ ~OffsetChain(g, p)')
              => (~ReadOk(OffsetPath(g, p)) \/ conn' /= "connected")]_vars

\* C13: no goroutine holds a mutex of the tree while it calls ChildrenW or
\* GetW or sends to the storage channel: under a frame that has made its
\* read, or is at its send, no frame of the same goroutine holds a lock.
C13_NoLockAcrossCalls ==
  \A s \in Stacks : \A k \in 1..Len(s) :
    (s[k].wp /= NoPath \/ s[k].pc = "send")
      => \A j \in 1..(k - 1) : s[j].lk = NoLock

\* The module runs on a valid session: Start has returned and Stop was not
\* called, the connection is up, and the session monitor has no event left
\* to handle and no rebuild to make.
Running ==
  /\ ~crashed /\ conn = "connected" /\ eventChan = <<>>
  /\ \E s \in Stacks : Top(s).fn = "main" /\ Top(s).pc = "started"
  /\ \A s \in Stacks : Top(s).pc /= "rebuild"
\* The goroutines that wait on the offset watch of partition i of topic t.
OffsetWatchers(g, t, i) ==
  Copies({s \in Stacks : /\ Top(s).fn = "watchOffset"
                         /\ Top(s).g = g /\ Top(s).t = t /\ Top(s).p = i})
\* A call of the offset handler for the partition has not returned.
Rearming(g, i) ==
  \E f \in Frames : f.fn = "resetOffsetWatchAndSend" /\ f.g = g /\ f.p = i

\* C14: while the module runs on a valid session, every partition index
\* below the count of a TopicEntry has exactly one outstanding offset watch,
\* unless a handler for the index is re-arming it.
C14_OneOffsetWatchPerIndex ==
  Running =>
    \A g \in DOMAIN groupList : \A t \in DOMAIN groupList[g] :
      \A i \in 0..(groupList[g][t] - 1) :
        ~Rearming(g, i) => OffsetWatchers(g, t, i) = 1

\* C15: the count of a TopicEntry is at most the live child count that the
\* last partition-list read of its group's path observed.  A read that
\* succeeds starts a goroutine on the watch of the path and observes the
\* children the node has in that step: right after it, the count is at most
\* their number.
C15_CountAtMostObserved ==
  [][\A g \in DOMAIN groupList' : \A t \in DOMAIN groupList'[g] :
       WatchersOn(PartitionListPath(g))' > WatchersOn(PartitionListPath(g))
         => groupList'[g][t] <= Cardinality(Children(g))]_vars

\* C16: a topic that the payload node of a tracked group names is inserted.
\* Once every handler has finished, with the topic-list watch chain of the
\* group live, the topic of the payload has a TopicEntry (nothing is left
\* that would insert it later).
C16_NewTopicInserted ==
  Quiet =>
    \A g \in DOMAIN groupList :
      (TopicChain(g) /\ zkData[g][0].exists /\ ~Unmarshal(zkData[g][0].raw).err)
        => HasEntry(g, Unmarshal(zkData[g][0].raw).Topic)

\* C17: a reset-only handler only re-arms.  It is never past its read: it
\* takes no lock, makes no insertion, assigns no count, calls no handler of
\* a child path and sends no request (a frame with resetOnly set is the top
\* of its goroutine, at its entry or at the log call of a malformed offset).
C17_ResetOnlyOnlyRearms ==
  \A s \in Stacks : \A k \in 1..Len(s) :
    s[k].ro => (k = Len(s) /\ s[k].pc \in {"read", "badOffset"})
\* The payload node of a tracked group was rewritten after the scan had read
\* it: the fire of the topic-list watch was handled reset-only, the watch is
\* armed again and the topic map is as it was.
C17_Witness ==
  /\ zkData[G1][0].raw = Raw(TRUE, "t2", 2)
  /\ HasEntry(G1, "t1") /\ ~HasEntry(G1, "t2")
  /\ \E s \in Stacks : Top(s).fn = "watchTopicList" /\ Top(s).g = G1
  /\ \A f \in Frames : f.fn /= "resetTopicListWatchAndAdd"

\* The paths the module reads.
Paths ==
  {GroupListPath} \cup {TopicListPath(g) : g \in Groups}
    \cup {PartitionListPath(g) : g \in Groups}
    \cup {OffsetPath(g, p) : g \in Groups, p \in Parts}
\* The frame is past its read and has done nothing since.
JustRead(f) == f.wp /= NoPath /\ f.pc = AfterSpawn(f.fn) /\ f.lk = NoLock

\* A goroutine starts to wait on a watch of a path, and a handler goes on
\* after its read of a path, only in a step in which the read of the path
\* succeeds; and the group map loses no group as long as it is not replaced.
C18_OnlyAfterRead ==
  /\ \A path \in Paths : WatchersOn(path)' > WatchersOn(path) => ReadOk(path)
  /\ \A f \in Frames' \ Frames : JustRead(f) => ReadOk(f.wp)
  /\ gen' = gen => DOMAIN groupList \subseteq DOMAIN groupList'
\* Before a rebuild a partition scan never goes back to an index below the
\* stored count.
C18_NoRetry ==
  gen = 0 =>
    \A f \in Frames :
      (f.fn = "resetPartitionListWatchAndAdd" /\ f.pc = "loop" /\ HasEntry(f.g, f.t))
        => f.i >= groupList[f.g][f.t]
\* Once every handler has finished, with no loss of the connection, every
\* child of the group is below the stored count, read or not; and after at
\* most one change of the tree every node below the count that is there and
\* decodes has its offset watch, whichever read of another node failed.
C18_SiblingsWatched ==
  (Quiet /\ losses = 0) =>
    \A g \in DOMAIN groupList : \A t \in DOMAIN groupList[g] :
      /\ groupList[g][t] >= Cardinality(Children(g))
      /\ changes <= 1 =>
           \A i \in 0..(groupList[g][t] - 1) :
             (zkData[g][i].exists /\ ~Unmarshal(zkData[g][i].raw).err)
               => OffsetWatchers(g, t, i) = 1

\* C18: a read that fails starts no continuation and no descent, and the
\* failure is local: the nodes beside the failed one are watched, and the
\* failed path is not scanned again before a rebuild (the group stays in the
\* map, the index stays below the stored count).
C18_ReadFailureIsLocal ==
  /\ [][C18_OnlyAfterRead]_vars
  /\ [](C18_NoRetry /\ C18_SiblingsWatched)
\* The scan of a group with two children is over; the read of the offset of
\* child 0 failed (the node was deleted after the partition list was read),
\* child 1 is watched and its request sent, and the count is 2.
C18_Witness ==
  /\ Quiet /\ gen = 0 /\ losses = 0 /\ changes = 1
  /\ HasEntry(G1, "t1") /\ groupList[G1]["t1"] = 2
  /\ ~zkData[G1][0].exists /\ zkData[G1][1].exists
  /\ OffsetWatchers(G1, "t1", 0) = 0 /\ OffsetWatchers(G1, "t1", 1) = 1
  /\ \E r \in BagToSet(sent) : r.Partition = 1
  /\ \A r \in BagToSet(sent) : r.Partition /= 0

\* C19: a handler that is about to look up its group or its topic finds the
\* entry: the group of a topic-list handler at its scan is in the group map,
\* and the topic of a partition-list handler at its lock, or at the
\* assignment of the count, is in the topic map of its group.
C19_EntryPresent ==
  \A f \in Frames :
    /\ (f.fn = "resetTopicListWatchAndAdd" /\ f.pc = "scan") => f.g \in DOMAIN groupList
    /\ (f.fn = "resetPartitionListWatchAndAdd"
          /\ (f.pc = "lock" \/ (f.pc = "loop" /\ ~(f.i < f.n))))
         => HasEntry(f.g, f.t)

\* The expired events the session monitor has received, and the rebuilds it
\* has decided on (made, or about to be made).
ExpiredHandled == expiries - Len(SelectSeq(eventChan, LAMBDA e : e = "expired"))
RebuildsDecided ==
  gen + (IF \E s \in Stacks : Top(s).pc = "rebuild" THEN 1 ELSE 0)

\* C20: the session monitor decides on a rebuild only for an expired event
\* it has received since the rebuild before (or since Start): it has decided
\* on no more rebuilds than it has received expired events.
C20_RebuildOnlyAfterExpiry == RebuildsDecided <= ExpiredHandled

====
